---- MODULE Spec2Model ----
(***************************************************************************)
(* polycas - Poly-88 cassette utility (src/polycas.py).                    *)
(*                                                                         *)
(* The model follows class CassetteProgram: the section encoder            *)
(* (__createChecksum, __createSection, setName, create*Message), the       *)
(* chunker loadFromBin, the tape image parser load, save, the two          *)
(* modulators of saveAsWavs and the paced transmitter stream/send.         *)
(* Bytes are integers 0..255, byte strings are sequences of bytes.         *)
(***************************************************************************)
EXTENDS Integers, Sequences, FiniteSets, TLC

VARIABLES
    name,       \* self.name: <<>> while the attribute is not set, else 8 bytes
    sections,   \* self.sections: list of byte strings
    size,       \* self.size
    err,        \* "none", or the exception that ended the process
    disk,       \* contents of the tape image file written by save
    saved,      \* history: what the last save wrote, and how it was built
    origin,     \* history: how self.sections was populated
    call,       \* history: the last operation, its arguments and pre-state
    byteWav,    \* blocks written to the _byte wav file, in emission order
    polyWav,    \* blocks written to the _poly wav file, in emission order
    port,       \* events at the serial port and the console, in order
    ret         \* result of a direct call of __createChecksum

vars == <<name, sections, size, err, disk, saved, origin, call,
          byteWav, polyWav, port, ret>>

----------------------------------------------------------------------------
(* Program constants *)

SYNC == 230
SOH == 1
TYPE_DATA == 0
TYPE_COMMENT == 1
TYPE_END == 2
TYPE_EXEC == 3
NameLen == 8
SyncCount == 16
Increment == 256
HeaderRead_exact == NameLen + 7
HeaderRead == 16
LengthIndex == 10
SPACE == 32

\* b'\r\nLOADING START\r\n' and b'LOADING END\r\n'
LoadingStart == <<13, 10, 76, 79, 65, 68, 73, 78, 71, 32, 83, 84, 65, 82, 84, 13, 10>>
LoadingEnd == <<76, 79, 65, 68, 73, 78, 71, 32, 69, 78, 68, 13, 10>>

NoName == <<>>
\* an optional argument is <<>> (None) or <<v>>
None == <<>>

----------------------------------------------------------------------------
(* Helpers on byte strings *)

RECURSIVE Sum(_)
Sum(s) ==
    IF s = <<>> THEN 0
    ELSE IF Len(s) = 1 THEN s[1]
    ELSE LET h == Len(s) \div 2
         IN  Sum(SubSeq(s, 1, h)) + Sum(SubSeq(s, h + 1, Len(s)))

Repeat(b, n) == [i \in 1..n |-> b]

\* f.read(n) at position p (bytes already consumed) of buffer buf
Read(buf, p, n) ==
    LET q == IF p + n <= Len(buf) THEN p + n ELSE Len(buf)
    IN  SubSeq(buf, p + 1, q)

RECURSIVE Concat(_)
Concat(ss) == IF ss = <<>> THEN <<>> ELSE Head(ss) \o Concat(Tail(ss))

----------------------------------------------------------------------------
(* __init__ *)

header == Repeat(SYNC, SyncCount) \o <<SOH>>

\* the object as a record, so that a method's calls compose
Self == [name |-> name, sections |-> sections, size |-> size, err |-> err]

(* __createChecksum *)
createChecksum_noWrap(s) ==
    IF s = <<>> THEN <<>>
    ELSE LET sum == Sum(s) % 256
         IN  <<256 - sum>>

createChecksum(s) ==
    IF s = <<>> THEN <<>>
    ELSE LET sum == Sum(s) % 256
         IN  <<(256 - sum) % 256>>

(* __createSection: bytes([...]) raises ValueError for a value outside 0..255 *)
IsByte(v) == v \in 0..255

\* a, the header body of lines 43-47
headerBody_bigEndian(nm, address, data, execaddr, sectiontype) ==
    nm
    \o <<address \div 256, address % 256>>
    \o <<Len(data) % 256>>
    \o <<execaddr \div 256, execaddr % 256>>
    \o <<sectiontype>>

headerBody(nm, address, data, execaddr, sectiontype) ==
    nm
    \o <<address % 256, address \div 256>>
    \o <<Len(data) % 256>>
    \o <<execaddr % 256, execaddr \div 256>>
    \o <<sectiontype>>

createSection(self, address, data, sectiontype) ==
    LET execaddr == address
        addr == IF sectiontype = TYPE_EXEC THEN 0 ELSE address
    IN  IF self.err # "none" THEN self
        ELSE IF self.name = NoName THEN [self EXCEPT !.err = "AttributeError"]
        ELSE IF ~(IsByte(addr \div 256) /\ IsByte(execaddr \div 256))
             THEN [self EXCEPT !.err = "ValueError"]
        ELSE LET a == headerBody(self.name, addr, data, execaddr, sectiontype)
                 b == IF Len(data) = 0 THEN <<>> ELSE data
                 sec == header \o a \o createChecksum(a) \o b \o createChecksum(b)
             IN  [self EXCEPT !.sections = Append(@, sec),
                              !.size = @ + Len(sec)]

(* setName: exit(-1) for a name of more than 8 bytes, else pad with spaces *)
setNameOn_noPad(self, n) ==
    IF self.err # "none" THEN self
    ELSE IF Len(n) > NameLen THEN [self EXCEPT !.err = "exit"]
    ELSE [self EXCEPT !.name = n]

setNameOn(self, n) ==
    IF self.err # "none" THEN self
    ELSE IF Len(n) > NameLen THEN [self EXCEPT !.err = "exit"]
    ELSE [self EXCEPT !.name =
              IF Len(n) < NameLen THEN n \o Repeat(SPACE, NameLen - Len(n)) ELSE n]

createDataMessageOn(self, address, data) == createSection(self, address, data, TYPE_DATA)
createCommentMessageOn(self, s) == createSection(self, 0, s, TYPE_COMMENT)
createEndMessageOn(self) == createSection(self, 0, <<>>, TYPE_END)
createExecMessageOn(self, execaddr) == createSection(self, execaddr, <<>>, TYPE_EXEC)

(* loadFromBin: the read loop over the input file *)
RECURSIVE chunkLoop(_, _, _, _)
chunkLoop(self, infile, pos, address) ==
    LET data == Read(infile, pos, Increment)
    IN  IF Len(data) = 0 \/ self.err # "none" THEN self
        ELSE chunkLoop(createDataMessageOn(self, address, data), infile,
                       pos + Len(data), address + Increment)

loadFromBinOn_truthyExec(self, infile, loadaddr, execaddr, n) ==
    LET s1 == setNameOn(self, n)
        s2 == createCommentMessageOn(s1, LoadingStart)
        s3 == chunkLoop(s2, infile, 0, loadaddr)
        s4 == createCommentMessageOn(s3, LoadingEnd)
    IN  IF execaddr # None /\ execaddr[1] # 0 THEN createExecMessageOn(s4, execaddr[1])
        ELSE createEndMessageOn(s4)

loadFromBinOn(self, infile, loadaddr, execaddr, n) ==
    LET s1 == setNameOn(self, n)
        s2 == createCommentMessageOn(s1, LoadingStart)
        s3 == chunkLoop(s2, infile, 0, loadaddr)
        s4 == createCommentMessageOn(s3, LoadingEnd)
    IN  IF execaddr # None THEN createExecMessageOn(s4, execaddr[1])
        ELSE createEndMessageOn(s4)

(* load: the parser *)
RECURSIVE syncRun(_, _)
syncRun(buf, p) ==
    IF p < Len(buf) /\ buf[p + 1] = SYNC THEN 1 + syncRun(buf, p + 1) ELSE 0

payloadLength_literal(s) == s

payloadLength(s) == IF s = 0 THEN 256 ELSE s

RECURSIVE loadLoop(_, _, _)
loadLoop(self, buf, p) ==
    IF p >= Len(buf) THEN self
    ELSE LET k == syncRun(buf, p)
             lead == Read(buf, p, k + 1)
             p1 == p + Len(lead)
             c == Read(buf, p1, HeaderRead)
             p2 == p1 + Len(c)
         IN  IF Len(c) <= LengthIndex THEN [self EXCEPT !.err = "IndexError"]
             ELSE LET length == payloadLength(c[LengthIndex + 1])
                      rest == Read(buf, p2, length)
                      section == lead \o c \o rest
                  IN  loadLoop([self EXCEPT !.sections = Append(@, section),
                                            !.size = @ + Len(section)],
                               buf, p2 + Len(rest))

loadOn(self, buf) ==
    IF self.err # "none" THEN self
    ELSE loadLoop([self EXCEPT !.size = 0, !.sections = <<>>], buf, 0)


(* save: the concatenation of the sections, in list order *)
saveBytes(self) == Concat(self.sections)

(* saveAsWavs, BYTE format: f0 and f1 are 160 samples of a sine of 4 and of 8 *)
(* cycles; buffers = [f0, f1]                                               *)
ByteBlockSamples == 160
f0 == [cycles |-> 4, samples |-> ByteBlockSamples]
f1 == [cycles |-> 8, samples |-> ByteBlockSamples]
byteBuffers == <<f0, f1>>

Bit_msbFirst(c, bit) == (c \div (2 ^ (7 - bit))) % 2

\* (c >> bit) & 0x01
Bit(c, bit) == (c \div (2 ^ bit)) % 2

\* the frames written for one byte c
byteFrames(c) ==
    <<byteBuffers[1]>>
    \o [bit \in 1..8 |-> byteBuffers[Bit(c, bit - 1) + 1]]
    \o <<byteBuffers[2], byteBuffers[2]>>

\* for c in section: the 11 frames of c
byteSection(section) ==
    [i \in 1..(11 * Len(section)) |->
        byteFrames(section[((i - 1) \div 11) + 1])[((i - 1) % 11) + 1]]

RECURSIVE byteWavOf(_)
byteWavOf(ss) ==
    IF ss = <<>> THEN <<>>
    ELSE byteSection(Head(ss)) \o byteWavOf(Tail(ss))

(* saveAsWavs, POLY format: HIGH and LOW are 10 samples at +a and at -a;    *)
(* buffers = [HIGH+LOW, LOW+HIGH]                                           *)
LevelSamples == 10
CarrierCount == 1200
HIGH == <<[level |-> "+a", samples |-> LevelSamples]>>
LOW == <<[level |-> "-a", samples |-> LevelSamples]>>
polyBuffers == <<HIGH \o LOW, LOW \o HIGH>>

polyFrames(c) == [bit \in 1..8 |-> polyBuffers[Bit(c, bit - 1) + 1]]

\* for c in section: the 8 frames of c
polySection(section) ==
    [i \in 1..(8 * Len(section)) |->
        polyFrames(section[((i - 1) \div 8) + 1])[((i - 1) % 8) + 1]]

RECURSIVE polySections(_)
polySections(ss) ==
    IF ss = <<>> THEN <<>>
    ELSE Repeat(polyBuffers[1], CarrierCount)
         \o polySection(Head(ss))
         \o polySections(Tail(ss))

polyWavOf(ss) == Repeat(polyBuffers[2], CarrierCount) \o polySections(ss)

(* send: one write of msg[i:i+1] and one sleep(11.0/300) per byte *)
SleepNum == 11
SleepDen == 300

sendEvents_merged(msg) ==
    <<[ev |-> "write", val |-> msg], [ev |-> "sleep", val |-> <<SleepNum, SleepDen>>]>>

sendEvents(msg) ==
    [i \in 1..(2 * Len(msg)) |->
        IF i % 2 = 1 THEN [ev |-> "write", val |-> SubSeq(msg, (i + 1) \div 2, (i + 1) \div 2)]
        ELSE [ev |-> "sleep", val |-> <<SleepNum, SleepDen>>]]

(* stream: per section, count it, send it, print the progress line *)
RECURSIVE streamEvents(_, _, _)
streamEvents(ss, sent_size, total) ==
    IF ss = <<>> THEN <<>>
    ELSE LET sent == sent_size + Len(Head(ss))
         IN  sendEvents(Head(ss))
             \o <<[ev |-> "report", val |-> <<sent, total>>]>>
             \o streamEvents(Tail(ss), sent, total)

----------------------------------------------------------------------------
(* The operations as actions *)

NoCall == [op |-> "none", a |-> 0, e |-> None, d |-> <<>>, n |-> <<>>,
           pre |-> <<>>, presize |-> 0]

Called(op, a, e, d, n) ==
    call' = [op |-> op, a |-> a, e |-> e, d |-> d, n |-> n,
             pre |-> sections, presize |-> size]

Becomes(r) ==
    /\ name' = r.name
    /\ sections' = r.sections
    /\ size' = r.size
    /\ err' = r.err

setName(n) ==
    /\ err = "none"
    /\ Becomes(setNameOn(Self, n))
    /\ Called("setName", 0, None, <<>>, n)
    /\ UNCHANGED <<disk, saved, origin, byteWav, polyWav, port, ret>>

createDataMessage(address, data) ==
    /\ err = "none"
    /\ Becomes(createDataMessageOn(Self, address, data))
    /\ Called("createDataMessage", address, None, data, <<>>)
    /\ origin' = "api"
    /\ UNCHANGED <<disk, saved, byteWav, polyWav, port, ret>>

createCommentMessage(s) ==
    /\ err = "none"
    /\ Becomes(createCommentMessageOn(Self, s))
    /\ Called("createCommentMessage", 0, None, s, <<>>)
    /\ origin' = "api"
    /\ UNCHANGED <<disk, saved, byteWav, polyWav, port, ret>>

createEndMessage ==
    /\ err = "none"
    /\ Becomes(createEndMessageOn(Self))
    /\ Called("createEndMessage", 0, None, <<>>, <<>>)
    /\ origin' = "api"
    /\ UNCHANGED <<disk, saved, byteWav, polyWav, port, ret>>

createExecMessage(execaddr) ==
    /\ err = "none"
    /\ Becomes(createExecMessageOn(Self, execaddr))
    /\ Called("createExecMessage", execaddr, None, <<>>, <<>>)
    /\ origin' = "api"
    /\ UNCHANGED <<disk, saved, byteWav, polyWav, port, ret>>

loadFromBin(infile, loadaddr, execaddr, n) ==
    /\ err = "none"
    /\ Becomes(loadFromBinOn(Self, infile, loadaddr, execaddr, n))
    /\ Called("loadFromBin", loadaddr, execaddr, infile, n)
    /\ origin' = IF sections = <<>> THEN "bin" ELSE "api"
    /\ UNCHANGED <<disk, saved, byteWav, polyWav, port, ret>>

load(buf) ==
    /\ err = "none"
    /\ Becomes(loadOn(Self, buf))
    /\ Called("load", 0, None, buf, <<>>)
    /\ origin' = "load"
    /\ UNCHANGED <<disk, saved, byteWav, polyWav, port, ret>>

save ==
    /\ err = "none"
    /\ disk' = saveBytes(Self)
    /\ saved' = [sections |-> sections, origin |-> origin]
    /\ Called("save", 0, None, <<>>, <<>>)
    /\ UNCHANGED <<name, sections, size, err, origin, byteWav, polyWav, port, ret>>

saveAsWavs ==
    /\ err = "none"
    /\ byteWav' = byteWavOf(sections)
    /\ polyWav' = polyWavOf(sections)
    /\ Called("saveAsWavs", 0, None, <<>>, <<>>)
    /\ UNCHANGED <<name, sections, size, err, disk, saved, origin, port, ret>>

stream ==
    /\ err = "none"
    /\ port' = streamEvents(sections, 0, size)
                 \o <<[ev |-> "done", val |-> <<>>], [ev |-> "sleep", val |-> <<3, 1>>]>>
    /\ Called("stream", 0, None, <<>>, <<>>)
    /\ UNCHANGED <<name, sections, size, err, disk, saved, origin, byteWav, polyWav, ret>>

checksum(s) ==
    /\ ret' = createChecksum(s)
    /\ Called("createChecksum", 0, None, s, <<>>)
    /\ UNCHANGED <<name, sections, size, err, disk, saved, origin,
                   byteWav, polyWav, port>>

----------------------------------------------------------------------------
(* Inputs and bounds *)

MaxSections == 3      \* sections appended through the create*Message calls
MaxPrior == 1         \* sections already in the list when loadFromBin is called
MaxCut == 5           \* bytes missing at the end of a tape image given to load
MaxOutLen == 2        \* longest binary input of a modulated or streamed program
MaxInputLen == 700    \* longest binary input file
MaxLen == 3           \* longest byte string given to __createChecksum directly

Pattern(n, first) == [i \in 1..n |-> (first + 3 * (i - 1)) % 256]

Names == {<<65, 66>>, <<65, 66, 67, 68, 69, 70, 71, 72>>,
          <<65, 66, 67, 68, 69, 70, 71, 72, 73>>}
BinFiles == {Pattern(n, f) : n \in {0, 1, 256, 257, MaxInputLen}, f \in {0, SYNC}}
LoadAddrs == {4096, 65280}
ExecAddrs == {None, <<0>>, <<4660>>}
Payloads == {<<>>, <<5>>, <<SYNC, 1>>}
Comments == {<<72, 73>>}

Init ==
    /\ name = NoName
    /\ sections = <<>>
    /\ size = 0
    /\ err = "none"
    /\ disk = <<>>
    /\ saved = [sections |-> <<>>, origin |-> "new"]
    /\ origin = "new"
    /\ call = NoCall
    /\ byteWav = <<>>
    /\ polyWav = <<>>
    /\ port = <<>>
    /\ ret = <<>>

(* The codec, driven as main drives it and through the create*Message API: *)
(* an object is populated once (by loadFromBin, or section by section),    *)
(* saved, and the tape image, whole or cut short, is parsed back by load.  *)
Building == origin \in {"new", "api"} /\ Len(sections) < MaxSections

Next ==
    \/ origin = "new" /\ \E n \in Names : setName(n)
    \/ Building /\ \E a \in {4660}, d \in Payloads : createDataMessage(a, d)
    \/ Building /\ \E s \in Comments : createCommentMessage(s)
    \/ Building /\ createEndMessage
    \/ Building /\ \E e \in {4660} : createExecMessage(e)
    \/ Building /\ Len(sections) <= MaxPrior
       /\ \E f \in BinFiles, a \in LoadAddrs, e \in ExecAddrs, n \in Names :
             loadFromBin(f, a, e, n)
    \/ origin # "load" /\ save
    \/ origin # "load"
       /\ \E cut \in 0..MaxCut :
             cut <= Len(disk) /\ load(SubSeq(disk, 1, Len(disk) - cut))

Spec == Init /\ [][Next]_vars

(* One section over the whole range of payload lengths, a second one      *)
(* behind it, saved and parsed back.                                       *)
WidePayloads == {Pattern(n, f) : n \in 0..Increment, f \in {0, SYNC}}
WideAddrs == {0, 4660, 65535}

SectionNext ==
    \/ origin = "new" /\ \E n \in Names : setName(n)
    \/ sections = <<>> /\ \E a \in WideAddrs, d \in WidePayloads : createDataMessage(a, d)
    \/ sections = <<>> /\ \E s \in WidePayloads : createCommentMessage(s)
    \/ Len(sections) <= 1 /\ origin # "load" /\ createEndMessage
    \/ sections = <<>> /\ \E e \in WideAddrs : createExecMessage(e)
    \/ origin = "api" /\ save
    \/ origin = "api" /\ saved.origin = "api" /\ load(disk)

SectionSpec == Init /\ [][SectionNext]_vars

(* The outputs: a program built by loadFromBin is modulated and streamed.  *)
OutFiles == {Pattern(n, f) : n \in 0..MaxOutLen, f \in {0, SYNC}}

OutNext ==
    \/ origin = "new"
       /\ \E f \in OutFiles, a \in LoadAddrs, e \in ExecAddrs, n \in Names :
             loadFromBin(f, a, e, n)
    \/ saveAsWavs
    \/ stream

OutSpec == Init /\ [][OutNext]_vars

(* __createChecksum called directly *)
ByteSamples == {0, 1, 127, 128, 255}

RECURSIVE SeqsUpTo(_, _)
SeqsUpTo(S, n) ==
    IF n = 0 THEN {<<>>}
    ELSE LET shorter == SeqsUpTo(S, n - 1)
         IN  shorter \cup {Append(s, b) : s \in shorter, b \in S}

ChecksumInputs == SeqsUpTo(ByteSamples, MaxLen) \cup {Pattern(Increment, f) : f \in {0, 1, SYNC}}

ChecksumNext == \E s \in ChecksumInputs : checksum(s)

ChecksumSpec == Init /\ [][ChecksumNext]_vars

----------------------------------------------------------------------------
(* Properties *)

Last(s) == s[Len(s)]
CreateOps == {"createDataMessage", "createCommentMessage", "createEndMessage",
              "createExecMessage"}
TypeOf(op) ==
    CASE op = "createDataMessage" -> 0
      [] op = "createCommentMessage" -> 1
      [] op = "createEndMessage" -> 2
      [] op = "createExecMessage" -> 3

\* C4 (checksum law): for a non-empty s, __createChecksum(s) is one byte c in
\* 0..255 with (sum(s) + c) mod 256 = 0, which is 0 when the sum is a multiple
\* of 256; for the empty s it is empty.
C4_ChecksumLaw ==
    call.op = "createChecksum" =>
        IF call.d = <<>> THEN ret = <<>>
        ELSE /\ Len(ret) = 1
             /\ ret[1] \in 0..255
             /\ (Sum(call.d) + ret[1]) % 256 = 0
             /\ (Sum(call.d) % 256 = 0 => ret[1] = 0)

C4_Witness ==
    /\ call.op = "createChecksum"
    /\ call.d = <<128, 128>>
    /\ ret = <<0>>

\* C2 (wire layout): a create*Message call appends exactly one section: 16 bytes
\* 0xE6, 0x01, the 8-byte name, address low and high, the length byte, exec
\* address low and high, the type, the checksum of those 14 bytes, the payload,
\* and the payload checksum only for a non-empty payload; an Exec section holds
\* the given address in the exec field and 0 in the address field.
C2_WireLayout ==
    (call.op \in CreateOps /\ err = "none") =>
        /\ Len(sections) = Len(call.pre) + 1
        /\ SubSeq(sections, 1, Len(call.pre)) = call.pre
        /\ LET s == Last(sections)
               L == Len(call.d)
               exec == call.op = "createExecMessage"
               A == IF exec THEN 0 ELSE call.a
           IN  /\ Len(s) = 32 + L + (IF L > 0 THEN 1 ELSE 0)
               /\ \A i \in 1..16 : s[i] = 230
               /\ s[17] = 1
               /\ SubSeq(s, 18, 25) = name
               /\ s[26] = A % 256
               /\ s[27] = A \div 256
               /\ s[28] = L % 256
               /\ exec => (s[29] = call.a % 256 /\ s[30] = call.a \div 256)
               /\ s[31] = TypeOf(call.op)
               /\ s[32] \in 0..255
               /\ (Sum(SubSeq(s, 18, 31)) + s[32]) % 256 = 0
               /\ SubSeq(s, 33, 32 + L) = call.d
               /\ L > 0 => (s[33 + L] \in 0..255 /\ (Sum(call.d) + s[33 + L]) % 256 = 0)
               /\ size = call.presize + Len(s)

C2_Witness ==
    /\ call.op = "createDataMessage"
    /\ err = "none"
    /\ call.a = 4660
    /\ Len(call.d) = 256
    /\ Len(Last(sections)) = 289
    /\ Last(sections)[26] = 52
    /\ Last(sections)[27] = 18

\* C5 (length byte): the encoder writes len(payload) mod 256, so 256 bytes are
\* written as 0 and 1 to 255 bytes as themselves; the decoder reads 0 as 256 and
\* 1 to 255 as themselves, so for 1 to 256 bytes the decoder's length is the
\* length the encoder was given: parsing a saved section that another section
\* follows consumes exactly that many payload bytes.
PayloadGiven(s) == Len(s) - 33

C5_LengthByte ==
    /\ (call.op \in CreateOps /\ err = "none" /\ Len(call.d) \in 1..256) =>
          LET lb == Last(sections)[28]
          IN  /\ lb = Len(call.d) % 256
              /\ (Len(call.d) = 256 => lb = 0)
              /\ (Len(call.d) < 256 => lb = Len(call.d))
              /\ payloadLength(lb) = Len(call.d)
    /\ (/\ call.op = "load"
        /\ call.d = Concat(saved.sections)
        /\ Len(saved.sections) = 2
        /\ PayloadGiven(saved.sections[1]) \in 1..256) =>
          /\ err = "none"
          /\ Len(sections) = 2
          /\ Len(sections[1]) - 17 - 16 = PayloadGiven(saved.sections[1])

C5_Witness ==
    /\ call.op = "load"
    /\ call.d = Concat(saved.sections)
    /\ Len(saved.sections) = 2
    /\ PayloadGiven(saved.sections[1]) = 256
    /\ saved.sections[1][28] = 0
    /\ Len(sections[1]) = 289

\* the fields of an encoded section
TypeByte(s) == s[31]
AddrField(s) == s[26] + 256 * s[27]
ExecField(s) == s[29] + 256 * s[30]
Payload(s) == IF Len(s) <= 32 THEN <<>> ELSE SubSeq(s, 33, Len(s) - 1)
Min(a, b) == IF a <= b THEN a ELSE b

\* C1 (round trip): saving a program built by loadFromBin and loading the saved
\* bytes gives the section list loadFromBin built, section by section.
C1_RoundTrip ==
    (call.op = "load" /\ saved.origin = "bin" /\ call.d = Concat(saved.sections)) =>
        /\ err = "none"
        /\ sections = saved.sections
        /\ size = Len(call.d)

C1_Witness ==
    /\ call.op = "load"
    /\ saved.origin = "bin"
    /\ call.d = Concat(saved.sections)
    /\ Len(saved.sections) = 5
    /\ Len(saved.sections[2]) = 289
    /\ Len(saved.sections[3]) = 34
    /\ TypeByte(saved.sections[5]) = 3
    /\ sections = saved.sections

\* what C3 says loadFromBin appends for an input d at address A with optional
\* exec address e
ChunkingAsClaimed ==
    LET d == call.d
        n == Len(d)
        m == (n + 255) \div 256
        new == SubSeq(sections, Len(call.pre) + 1, Len(sections))
    IN  /\ err = "none"
        /\ Len(sections) = Len(call.pre) + m + 3
        /\ SubSeq(sections, 1, Len(call.pre)) = call.pre
        /\ TypeByte(new[1]) = 1
        /\ Payload(new[1]) = LoadingStart
        /\ \A k \in 0..(m - 1) :
              /\ TypeByte(new[k + 2]) = 0
              /\ AddrField(new[k + 2]) = call.a + 256 * k
              /\ Payload(new[k + 2]) = SubSeq(d, 256 * k + 1, Min(n, 256 * k + 256))
        /\ TypeByte(new[m + 2]) = 1
        /\ Payload(new[m + 2]) = LoadingEnd
        /\ Len(new[m + 3]) = 32
        /\ IF call.e # None
           THEN TypeByte(new[m + 3]) = 3 /\ ExecField(new[m + 3]) = call.e[1]
           ELSE TypeByte(new[m + 3]) = 2

\* C3 as stated (chunking): for every input and load address, loadFromBin appends
\* the start comment, ceil(n/256) Data sections at A + 256*k, the end comment and
\* one terminator, Exec when an exec address was given and End otherwise.
C3_Original ==
    (call.op = "loadFromBin" /\ Len(call.n) <= 8) => ChunkingAsClaimed

\* C3 as amended: the same, for the inputs whose Data section addresses
\* A + 256*k all fit in 16 bits (and whose exec address, if given, does).
AddressesFit ==
    /\ Len(call.d) = 0 \/ call.a + 256 * ((Len(call.d) - 1) \div 256) <= 65535
    /\ call.e = None \/ call.e[1] \in 0..65535

C3_Chunking ==
    (call.op = "loadFromBin" /\ Len(call.n) <= 8 /\ AddressesFit) => ChunkingAsClaimed

C3_Witness ==
    /\ call.op = "loadFromBin"
    /\ Len(call.d) = 700
    /\ call.a = 4096
    /\ call.e = None
    /\ Len(call.pre) = 0
    /\ Len(sections) = 6
    /\ <<Len(Payload(sections[2])), Len(Payload(sections[3])), Len(Payload(sections[4]))>>
          = <<256, 256, 188>>
    /\ <<AddrField(sections[2]), AddrField(sections[3]), AddrField(sections[4])>>
          = <<4096, 4352, 4608>>
    /\ TypeByte(sections[6]) = 2

\* C7 (name padding, NameTooLong): a name of at most 8 bytes is stored as the
\* name followed by spaces up to 8 bytes; a longer name fails before any byte is
\* produced, so a failing setName or loadFromBin leaves the section list and the
\* size counter as they were.
C7_NamePadding ==
    /\ (call.op \in {"setName", "loadFromBin"} /\ Len(call.n) <= 8) =>
          /\ err # "exit"
          /\ Len(name) = 8
          /\ SubSeq(name, 1, Len(call.n)) = call.n
          /\ \A i \in (Len(call.n) + 1)..8 : name[i] = 32
    /\ (call.op \in {"setName", "loadFromBin"} /\ Len(call.n) > 8) =>
          /\ err = "exit"
          /\ sections = call.pre
          /\ size = call.presize

C7_Witness ==
    /\ call.op = "loadFromBin"
    /\ Len(call.n) = 9
    /\ err = "exit"
    /\ Len(call.pre) = 1
    /\ sections = call.pre
    /\ name = <<65, 66, 32, 32, 32, 32, 32, 32>>

\* what a section's header and length byte demand after its sync run and
\* start-of-header byte: 15 header bytes, and for a length byte L > 0 the L
\* payload bytes and the payload checksum
RECURSIVE LeadingSync(_, _)
LeadingSync(s, i) == IF i <= Len(s) /\ s[i] = 230 THEN 1 + LeadingSync(s, i + 1) ELSE 0

Complete(s) ==
    LET k == LeadingSync(s, 1)
    IN  /\ Len(s) >= k + 1 + 15
        /\ LET lb == s[k + 1 + 11]
           IN  lb > 0 => Len(s) >= k + 1 + 15 + lb + 1

\* C6 (truncated input): when the buffer given to load ends inside a section,
\* load fails and does not keep that section; load never returns normally with a
\* section shorter than its header and length byte demand.
C6_TruncatedFails ==
    call.op = "load" =>
        /\ (call.d # Concat(saved.sections) => err # "none")
        /\ \A i \in 1..Len(sections) : Complete(sections[i])

\* C10 (section boundaries): load of the concatenation of any sequence of
\* sections made by the create*Message calls recovers exactly that sequence; a
\* section that follows one with an empty payload is recovered on its own.
C10_AnyOrder ==
    (call.op = "load" /\ saved.origin \in {"api", "bin"}
        /\ call.d = Concat(saved.sections)) =>
        /\ err = "none"
        /\ sections = saved.sections

\* the blocks C8 names
tone0 == [cycles |-> 4, samples |-> 160]
tone1 == [cycles |-> 8, samples |-> 160]
HIGH_THEN_LOW == <<[level |-> "+a", samples |-> 10], [level |-> "-a", samples |-> 10]>>
LOW_THEN_HIGH == <<[level |-> "-a", samples |-> 10], [level |-> "+a", samples |-> 10]>>
BitOf(c, b) == (c \div (2 ^ b)) % 2

\* where section q's carrier burst starts in the POLY output
RECURSIVE PolyOffset(_, _)
PolyOffset(ss, q) == IF q = 1 THEN 1200 ELSE PolyOffset(ss, q - 1) + 1200 + 8 * Len(ss[q - 1])

IsWrite(e) == e.ev = "write"
IsReport(e) == e.ev = "report"
WritesBefore(i) == Len(SelectSeq(SubSeq(port, 1, i - 1), IsWrite))

RECURSIVE SectionEnds(_, _)
SectionEnds(ss, q) == IF q = 0 THEN 0 ELSE SectionEnds(ss, q - 1) + Len(ss[q])

C9_Pacing ==
    call.op = "stream" =>
        LET bytes == Concat(sections)
            N == Len(bytes)
            writes == SelectSeq(port, IsWrite)
            reports == SelectSeq(port, IsReport)
        IN  /\ Len(writes) = N
            /\ \A i \in 1..N : writes[i].val = <<bytes[i]>>
            /\ \A i \in 1..Len(port) :
                  /\ IsWrite(port[i]) =>
                        /\ i < Len(port)
                        /\ port[i + 1] = [ev |-> "sleep", val |-> <<11, 300>>]
                  /\ (port[i].ev = "sleep" /\ i > 1 /\ ~IsWrite(port[i - 1])) =>
                        port[i - 1].ev = "done"
                  /\ IsReport(port[i]) =>
                        /\ \E q \in 1..Len(sections) :
                              WritesBefore(i) = SectionEnds(sections, q)
                        /\ port[i].val[1] = WritesBefore(i)
            /\ Len(reports) = Len(sections)
            /\ sections # <<>> => Last(reports).val = <<N, N>>

C9_Witness ==
    /\ call.op = "stream"
    /\ Len(sections) = 4
    /\ size = 50 + 35 + 46 + 32
    /\ Len(SelectSeq(port, IsWrite)) = 163
    /\ port[1] = [ev |-> "write", val |-> <<230>>]
    /\ port[2] = [ev |-> "sleep", val |-> <<11, 300>>]
    /\ port[101] = [ev |-> "report", val |-> <<50, 163>>]

====
